---- MODULE Spec2Model ----
(***************************************************************************)
(* Model of boxes/generators/adjustableshelf.py: AdjustableShelf.render    *)
(* and the three cutout callbacks it hands to rectangularWall.             *)
(*                                                                         *)
(* Lengths are Python floats in the source.  Here every length is an       *)
(* integer number of quarter millimetres (4 mm = 16, 0.5 mm = 2), and the  *)
(* thickness values that are drawn are even, so that t/2 is exact, as it   *)
(* is for the floats.                                                      *)
(***************************************************************************)
EXTENDS Integers, Sequences, FiniteSets, TLC

VARIABLES sx, y, sh, thickness, slop, attach,
          inner_h, inner_x, pc, i, sizes, panels

vars == <<sx, y, sh, thickness, slop, attach,
          inner_h, inner_x, pc, i, sizes, panels>>

args == <<sx, y, sh, thickness, slop, attach>>

\* ------------------------------------------------------------------ bounds
MaxNx == 3
MaxNh == 3

\* ------------------------------------------------- the values that are drawn
Widths      == {400, 600}        \* 100 mm, 150 mm
Heights     == {4, 320}          \* 1 mm, 80 mm
Depths      == {80, 1200}        \* 20 mm, 300 mm
Thicknesses == {12, 16}          \* 3 mm, 4 mm
Slops       == {0, 2, 12}        \* 0, the default 0.5 mm, 3 mm
Attaches    == {100}             \* the default 25 mm

SeqsUpTo(S, n) == UNION {[1..k -> S] : k \in 0..n}

\* ----------------------------------------------------------- Python helpers
RECURSIVE sum(_)
sum(s) == IF Len(s) = 0 THEN 0 ELSE s[1] + sum(Tail(s))

\* s[:-1]
ButLast_all(s) == s
ButLast(s) == IF Len(s) = 0 THEN s ELSE SubSeq(s, 1, Len(s) - 1)

\* t/2
Half(t) == t \div 2

\* --------------------------------------------- drawing primitives (recorded)
fingerHolesAt(px, py, length, angle) ==
    [kind |-> "fingerHolesAt", x |-> px, y |-> py, length |-> length,
     angle |-> angle]

rectangularHole(px, py, dx, dy, center_x) ==
    [kind |-> "rectangularHole", x |-> px, y |-> py, dx |-> dx, dy |-> dy,
     center_x |-> center_x]

rectangularWall(w, h, move, edges, cb, holes) ==
    [w |-> w, h |-> h, move |-> move, edges |-> edges, cb |-> cb,
     holes |-> holes]

\* ------------------------------------------------- create_back_wall_holes
back_wall_start_zero(t) == 0
back_wall_start(t) == 0 - Half(t)

back_wall_step_noslop(pos, w, sl, t) == pos + w
back_wall_step(pos, w, sl, t) == pos + t + 2*t + 2*sl + w

RECURSIVE back_wall_pos(_, _, _, _)
back_wall_pos(s, sl, t, k) ==
    IF k = 0 THEN back_wall_start(t)
    ELSE back_wall_step(back_wall_pos(s, sl, t, k - 1), s[k], sl, t)

create_back_wall_holes(s, hs, h, sl, t) ==
    [k \in 1..Len(ButLast(s)) |->
        fingerHolesAt(back_wall_pos(ButLast(s), sl, t, k), 0, h, 90)]

\* ---------------------------------------------------------- slider_cutout
slider_step_noth(pos, h, t) == pos + h
slider_step(pos, h, t) == pos + h + t

RECURSIVE slider_pos(_, _, _)
slider_pos(hs, t, k) ==
    IF k = 0 THEN 0 ELSE slider_step(slider_pos(hs, t, k - 1), hs[k], t)

slot_thickness_twice(t, sl) == t + 2*sl
slot_thickness(t, sl) == t + sl

slot_length_plus(yy, at) == yy + at
slot_length(yy, at) == yy - at

slider_cutout(hs, t, yy, at, sl) ==
    [k \in 1..Len(ButLast(hs)) |->
        rectangularHole(0, slider_pos(ButLast(hs), t, k) - Half(t),
                        slot_length(yy, at), slot_thickness(t, sl), FALSE)]

\* ----------------------------------------------------------- shelf_cutout
shelf_cutout(x, sl) ==
    [k \in 1..2 |->
        rectangularHole(y - attach, <<0, x>>[k], attach,
                        slot_thickness(thickness, sl), FALSE)]

\* -------------------------------------------------------- create_outer_box
inner_count_nx(nx) == nx
inner_count(nx) == nx - 1

slider_count_half(nx) == 2 + (nx - 1)
slider_count(nx) == 2 + (nx - 1) * 2

shelf_width_plus(x, t, sl) == x + 2*t + 2*sl
shelf_width(x, t, sl) == x + 2*t - 2*sl

InSizes(x) == \E k \in 1..Len(sizes) : sizes[k] = x

Emit(p) == panels' = Append(panels, p)

Init ==
    /\ sx \in SeqsUpTo(Widths, MaxNx)
    /\ sh \in SeqsUpTo(Heights, MaxNh)
    /\ y \in Depths
    /\ thickness \in Thicknesses
    /\ slop \in Slops
    /\ attach \in Attaches
    /\ inner_h = 0
    /\ inner_x = 0
    /\ pc = "render"
    /\ i = 0
    /\ sizes = <<>>
    /\ panels = <<>>

\* render() enters create_outer_box, which resolves the inner dimensions
Resolve ==
    /\ pc = "render"
    /\ inner_x' = sum(sx) + 2*(thickness + slop)
                    + (Len(sx) - 1) * (3*thickness + 2*slop)
    /\ inner_h' = sum(sh) + (Len(sh) - 1) * thickness
    /\ pc' = "left"
    /\ UNCHANGED <<args, i, sizes, panels>>

LeftWall ==
    /\ pc = "left"
    /\ Emit(rectangularWall(y, inner_h, "right", "FFFe", "none", <<>>))
    /\ pc' = "back"
    /\ UNCHANGED <<args, inner_h, inner_x, i, sizes>>

BackWall ==
    /\ pc = "back"
    /\ Emit(rectangularWall(inner_x, inner_h, "right", "ffff",
              "create_back_wall_holes",
              create_back_wall_holes(sx, sh, inner_h, slop, thickness)))
    /\ pc' = "right"
    /\ UNCHANGED <<args, inner_h, inner_x, i, sizes>>

RightWall ==
    /\ pc = "right"
    /\ Emit(rectangularWall(y, inner_h, "up", "FeFF", "none", <<>>))
    /\ pc' = "top"
    /\ UNCHANGED <<args, inner_h, inner_x, i, sizes>>

TopWall ==
    /\ pc = "top"
    /\ Emit(rectangularWall(inner_x, y, "left up", "Ffef",
              "create_back_wall_holes",
              create_back_wall_holes(sx, sh, y, slop, thickness)))
    /\ pc' = "bottom"
    /\ UNCHANGED <<args, inner_h, inner_x, i, sizes>>

BottomWall ==
    /\ pc = "bottom"
    /\ Emit(rectangularWall(inner_x, y, "up", "efFf",
              "create_back_wall_holes",
              create_back_wall_holes(sx, sh, y, slop, thickness)))
    /\ pc' = "inner"
    /\ i' = 0
    /\ UNCHANGED <<args, inner_h, inner_x, sizes>>

InnerWall ==
    /\ pc = "inner"
    /\ i < inner_count(Len(sx))
    /\ Emit(rectangularWall(y, inner_h,
              IF i = 0 THEN "left right" ELSE "right", "fffe", "none", <<>>))
    /\ i' = i + 1
    /\ UNCHANGED <<args, inner_h, inner_x, pc, sizes>>

InnerWallsDone ==
    /\ pc = "inner"
    /\ ~(i < inner_count(Len(sx)))
    /\ pc' = "sliders"
    /\ i' = 0
    /\ UNCHANGED <<args, inner_h, inner_x, sizes, panels>>

SliderWall ==
    /\ pc = "sliders"
    /\ i < slider_count(Len(sx))
    /\ Emit(rectangularWall(y, inner_h, "right", "eeee", "slider_cutout",
              slider_cutout(sh, thickness, y, attach, slop)))
    /\ i' = i + 1
    /\ UNCHANGED <<args, inner_h, inner_x, pc, sizes>>

SliderWallsDone ==
    /\ pc = "sliders"
    /\ ~(i < slider_count(Len(sx)))
    /\ pc' = "shelves"
    /\ i' = 0
    /\ sizes' = <<>>
    /\ UNCHANGED <<args, inner_h, inner_x, panels>>

ShelfEmit ==
    /\ pc = "shelves"
    /\ i < Len(sx)
    /\ ~InSizes(sx[i + 1])
    /\ sizes' = Append(sizes, sx[i + 1])
    /\ Emit(rectangularWall(y, shelf_width(sx[i + 1], thickness, slop), "up",
              "eeee", "shelf_cutout",
              shelf_cutout(shelf_width(sx[i + 1], thickness, slop), slop)))
    /\ i' = i + 1
    /\ UNCHANGED <<args, inner_h, inner_x, pc>>

ShelfSkip ==
    /\ pc = "shelves"
    /\ i < Len(sx)
    /\ InSizes(sx[i + 1])
    /\ i' = i + 1
    /\ UNCHANGED <<args, inner_h, inner_x, pc, sizes, panels>>

Return ==
    /\ pc = "shelves"
    /\ ~(i < Len(sx))
    /\ pc' = "done"
    /\ UNCHANGED <<args, inner_h, inner_x, i, sizes, panels>>

Next ==
    \/ Resolve
    \/ LeftWall
    \/ BackWall
    \/ RightWall
    \/ TopWall
    \/ BottomWall
    \/ InnerWall
    \/ InnerWallsDone
    \/ SliderWall
    \/ SliderWallsDone
    \/ ShelfEmit
    \/ ShelfSkip
    \/ Return

Spec == Init /\ [][Next]_vars

\* ===================================================================
\* Properties
\* ===================================================================

\* the input constraints of an EnclosureSpec
ValidSpec ==
    /\ Len(sx) >= 1
    /\ Len(sh) >= 1
    /\ \A k \in 1..Len(sx) : sx[k] > 0
    /\ \A k \in 1..Len(sh) : sh[k] > 0
    /\ y > 0
    /\ thickness > 0
    /\ slop >= 0
    /\ attach > 0
    /\ attach < y

\* the worked example: sx=[100,150], y=300, sh=[80,80,80], thickness=4,
\* slop=0.5, attach=25
ExampleSpec ==
    /\ sx = <<400, 600>>
    /\ y = 1200
    /\ sh = <<320, 320, 320>>
    /\ thickness = 16
    /\ slop = 2
    /\ attach = 100

PanelIdx == 1..Len(panels)
BackHolePanels == {n \in PanelIdx : panels[n].cb = "create_back_wall_holes"}
SliderPanels   == {n \in PanelIdx : panels[n].cb = "slider_cutout"}

\* sum over j <= k of (sx[j] + 3*thickness + 2*slop)
CumWidth(k) == sum(SubSeq(sx, 1, k)) + k * (3*thickness + 2*slop)

\* sum over j <= k of (sh[j] + thickness)
CumHeight(k) == sum(SubSeq(sh, 1, k)) + k * thickness

\* ------------------------------------------------------------------ C1
\* C1 as stated: for a valid spec the i-th divider-anchor hole is emitted at the cumulative
\* offset sum over j <= i of (sx[j] + 3*thickness + 2*slop); 113 mm for the
\* example.
C1_AsStated ==
    ValidSpec =>
    \A n \in BackHolePanels :
        /\ Len(sx) >= 1 => Len(panels[n].holes) = Len(sx) - 1
        /\ \A k \in 1..Len(panels[n].holes) :
              panels[n].holes[k].x = CumWidth(k)
        /\ ExampleSpec => /\ Len(panels[n].holes) = 1
                          /\ panels[n].holes[1].x = 452

\* C1 amended: the i-th divider-anchor hole is emitted at the cumulative
\* offset minus half a thickness (the centre of the divider wall); for the
\* example exactly one hole row, at 111 mm.
C1_HolePosition ==
    \A n \in BackHolePanels :
        /\ Len(sx) >= 1 => Len(panels[n].holes) = Len(sx) - 1
        /\ \A k \in 1..Len(panels[n].holes) :
              /\ panels[n].holes[k].kind = "fingerHolesAt"
              /\ 2 * panels[n].holes[k].x = 2 * CumWidth(k) - thickness
        /\ ExampleSpec => /\ Len(panels[n].holes) = 1
                          /\ panels[n].holes[1].x = 444

C1_Witness ==
    /\ ExampleSpec
    /\ Len(panels) >= 2
    /\ panels[2].cb = "create_back_wall_holes"
    /\ panels[2].holes[1].x = 444

\* ------------------------------------------------------------------ C2
\* C2 as stated: for a valid spec the k-th slider slot is passed to rectangularHole at the
\* cumulative offset sum over j <= k of (sh[j] + thickness); 84 mm and
\* 168 mm for the example.
C2_AsStated ==
    ValidSpec =>
    \A n \in SliderPanels :
        /\ \A k \in 1..Len(panels[n].holes) :
              panels[n].holes[k].y = CumHeight(k)
        /\ ExampleSpec => /\ Len(panels[n].holes) = 2
                          /\ panels[n].holes[1].y = 336
                          /\ panels[n].holes[2].y = 672

\* C2 amended: the k-th slider slot is passed to rectangularHole at the
\* cumulative offset minus half a thickness; 82 mm and 166 mm for the
\* example.
C2_SlotPosition ==
    \A n \in SliderPanels :
        /\ \A k \in 1..Len(panels[n].holes) :
              /\ panels[n].holes[k].kind = "rectangularHole"
              /\ 2 * panels[n].holes[k].y = 2 * CumHeight(k) - thickness
        /\ ExampleSpec => /\ Len(panels[n].holes) = 2
                          /\ panels[n].holes[1].y = 328
                          /\ panels[n].holes[2].y = 664

C2_Witness ==
    /\ ExampleSpec
    /\ SliderPanels # {}
    /\ \A n \in SliderPanels : panels[n].holes[2].y = 664

\* ------------------------------------------------------------------ C8
\* C8: for |sx| >= 2, thickness > 0, slop >= 0 the divider-anchor holes are
\* |sx|-1 in number, strictly increasing in emission order, and adjacent
\* holes are at least the compartment width between them apart.
C8_HoleSeparation ==
    (Len(sx) >= 2 /\ thickness > 0 /\ slop >= 0) =>
    \A n \in BackHolePanels :
        /\ Len(panels[n].holes) = Len(sx) - 1
        /\ \A k \in 1..(Len(panels[n].holes) - 1) :
              /\ panels[n].holes[k].x < panels[n].holes[k + 1].x
              /\ panels[n].holes[k + 1].x - panels[n].holes[k].x >= sx[k + 1]

C8_Witness ==
    /\ Len(sx) >= 3
    /\ sx[2] > sx[1]
    /\ Len(panels) >= 5
    /\ Len(panels[5].holes) = Len(sx) - 1
    /\ panels[5].holes[2].x - panels[5].holes[1].x >= sx[2]

\* ------------------------------------------------------------------ C10
Reverse(s) == [k \in 1..Len(s) |-> s[Len(s) + 1 - k]]

\* C10: for |sx| >= 2 the holes emitted for sx and those emitted for
\* reverse(sx) mirror each other about the panel of width innerWidth:
\* p'_(n-2-i) = innerWidth - p_i, and every hole lies strictly between 0 and
\* innerWidth.
C10_Mirror ==
    Len(sx) >= 2 =>
    \A n \in BackHolePanels :
        LET mirrored == create_back_wall_holes(Reverse(sx), sh, panels[n].h,
                                               slop, thickness)
            holes == panels[n].holes
        IN  /\ panels[n].w = sum(sx) + 2*(thickness + slop)
                               + (Len(sx) - 1) * (3*thickness + 2*slop)
            /\ Len(mirrored) = Len(holes)
            /\ \A k \in 1..Len(holes) :
                  /\ mirrored[Len(holes) + 1 - k].x = panels[n].w - holes[k].x
                  /\ 0 < holes[k].x
                  /\ holes[k].x < panels[n].w

C10_Witness ==
    /\ Len(sx) = 3
    /\ sx[1] # sx[3]
    /\ Len(panels) >= 2
    /\ Len(panels[2].holes) = 2
    /\ panels[2].holes[1].x # panels[2].w - panels[2].holes[2].x
\* ------------------------------------------------------------------ C3
\* the distinct values of a sequence, in first-occurrence order
RECURSIVE Distinct(_)
Distinct(s) ==
    IF Len(s) = 0 THEN <<>>
    ELSE LET d == Distinct(SubSeq(s, 1, Len(s) - 1))
         IN  IF \E k \in 1..Len(d) : d[k] = s[Len(s)]
             THEN d ELSE Append(d, s[Len(s)])

\* C3 as stated: one render of a valid spec emits exactly
\* 2 + 2 + (|sx|-1) + (2 + 2*(|sx|-1)) + |distinct(sx)| panels.
C3_AsStated ==
    (pc = "done" /\ ValidSpec) =>
        Len(panels) = 2 + 2 + (Len(sx) - 1) + (2 + 2 * (Len(sx) - 1))
                        + Len(Distinct(sx))

\* C3 amended: one render of a valid spec emits exactly
\* 5 + (|sx|-1) + (2 + 2*(|sx|-1)) + |distinct(sx)| panels: the outer box is
\* five panels (two sides, back, top, bottom).
C3_PanelCount ==
    (pc = "done" /\ ValidSpec) =>
        Len(panels) = 5 + (Len(sx) - 1) + (2 + 2 * (Len(sx) - 1))
                        + Len(Distinct(sx))

C3_Witness ==
    /\ pc = "done"
    /\ ValidSpec
    /\ Len(sx) = 3
    /\ Len(Distinct(sx)) = 2
    /\ Len(panels) = 15

\* ------------------------------------------------------------------ C4
\* C4: an invalid spec (empty sx or sh, a non-positive dimension,
\* attach >= y) never has a panel emitted and never runs render to its end.
C4_InvalidSpecAborts ==
    ~ValidSpec => (Len(panels) = 0 /\ pc # "done")

\* ------------------------------------------------------------------ C5
Role(p) ==
    CASE p.edges = "FFFe" /\ p.cb = "none" -> "side"
      [] p.edges = "FeFF" /\ p.cb = "none" -> "side"
      [] p.edges = "ffff" /\ p.cb = "create_back_wall_holes" -> "back"
      [] p.edges = "Ffef" /\ p.cb = "create_back_wall_holes" -> "top"
      [] p.edges = "efFf" /\ p.cb = "create_back_wall_holes" -> "bottom"
      [] p.edges = "fffe" /\ p.cb = "none" -> "divider"
      [] p.edges = "eeee" /\ p.cb = "slider_cutout" -> "slider"
      [] p.edges = "eeee" /\ p.cb = "shelf_cutout" -> "shelf"
      [] OTHER -> "unknown"

ExpectedRoles ==
    <<"side", "back", "side", "top", "bottom">>
      \o [k \in 1..(Len(sx) - 1) |-> "divider"]
      \o [k \in 1..(2 + 2 * (Len(sx) - 1)) |-> "slider"]
      \o [k \in 1..Len(Distinct(sx)) |-> "shelf"]

ShelfSeq == SelectSeq(panels, LAMBDA p : p.cb = "shelf_cutout")

\* C5: for a valid spec the panels emitted so far are always a prefix of
\* side, back, side, top, bottom, |sx|-1 dividers, 2 + 2*(|sx|-1) sliders,
\* one shelf per distinct value of sx in first-occurrence order, and the
\* whole of it when render returns; for |sx| = 1 there are no divider walls,
\* no divider-anchor holes and exactly 2 slider walls.
C5_EmissionOrder ==
    ValidSpec =>
        /\ Len(panels) <= Len(ExpectedRoles)
        /\ \A n \in PanelIdx : Role(panels[n]) = ExpectedRoles[n]
        /\ pc = "done" => Len(panels) = Len(ExpectedRoles)
        /\ \A m \in 1..Len(ShelfSeq) :
              ShelfSeq[m].h = Distinct(sx)[m] + 2*thickness - 2*slop
        /\ (Len(sx) = 1 /\ pc = "done") =>
              /\ \A n \in PanelIdx : Role(panels[n]) # "divider"
              /\ \A n \in BackHolePanels : panels[n].holes = <<>>
              /\ Cardinality(SliderPanels) = 2

C5_Witness ==
    /\ pc = "done"
    /\ ValidSpec
    /\ sx = <<600, 400, 600>>
    /\ Len(ShelfSeq) = 2
    /\ ShelfSeq[1].h > ShelfSeq[2].h

\* ------------------------------------------------------------------ C6
\* C6 as stated: for a valid spec a shelf panel for compartment width c carries exactly two
\* rectangular cutouts, at positions 0 and c along the height axis, each of
\* width attach and thickness thickness + slop.
C6_AsStated ==
    ValidSpec =>
    \A m \in 1..Len(ShelfSeq) :
        LET c == Distinct(sx)[m]
            holes == ShelfSeq[m].holes
        IN  /\ Len(holes) = 2
            /\ holes[1].y = 0
            /\ holes[2].y = c
            /\ \A k \in 1..2 : /\ holes[k].kind = "rectangularHole"
                               /\ holes[k].dx = attach
                               /\ holes[k].dy = thickness + slop

\* C6 amended: a shelf panel for compartment width c carries exactly two
\* rectangular cutouts, at positions 0 and c + 2*thickness - 2*slop (the
\* height of the shelf panel) along the height axis, each of width attach
\* and thickness thickness + slop.
C6_ShelfCutouts ==
    \A m \in 1..Len(ShelfSeq) :
        LET c == Distinct(sx)[m]
            holes == ShelfSeq[m].holes
        IN  /\ Len(holes) = 2
            /\ holes[1].y = 0
            /\ holes[2].y = c + 2*thickness - 2*slop
            /\ holes[2].y = ShelfSeq[m].h
            /\ \A k \in 1..2 : /\ holes[k].kind = "rectangularHole"
                               /\ holes[k].dx = attach
                               /\ holes[k].dy = thickness + slop

C6_Witness ==
    /\ ExampleSpec
    /\ Len(ShelfSeq) = 2
    /\ ShelfSeq[1].holes[2].y = 428
    /\ ShelfSeq[2].holes[2].y = 628

\* ------------------------------------------------------------------ C9
\* C9: every slider wall receives exactly |sh|-1 slots, all slider walls
\* receive the same slot list, and every slot starts at x = 0, is y - attach
\* long and thickness + slop thick.
C9_SliderSlots ==
    Len(sh) >= 1 =>
    \A n \in SliderPanels :
        /\ Len(panels[n].holes) = Len(sh) - 1
        /\ \A m \in SliderPanels : panels[m].holes = panels[n].holes
        /\ \A k \in 1..Len(panels[n].holes) :
              /\ panels[n].holes[k].kind = "rectangularHole"
              /\ panels[n].holes[k].x = 0
              /\ panels[n].holes[k].center_x = FALSE
              /\ panels[n].holes[k].dx = y - attach
              /\ panels[n].holes[k].dy = thickness + slop

C9_Witness ==
    /\ Len(sh) = 3
    /\ slop > 0
    /\ Cardinality(SliderPanels) >= 4
    /\ \A n \in SliderPanels : Len(panels[n].holes) = 2

\* ------------------------------------------------------------------ C7
\* twice the extent of a cutout in the frame of its panel: a rectangular
\* hole is anchored at its left edge unless center_x, and centred on its y;
\* a finger-hole row starts at (x, y), runs length at the given angle and is
\* one thickness wide
X2Lo(c) == IF c.kind = "fingerHolesAt" THEN 2 * c.x - thickness
           ELSE IF c.center_x THEN 2 * c.x - c.dx ELSE 2 * c.x
X2Hi(c) == IF c.kind = "fingerHolesAt" THEN 2 * c.x + thickness
           ELSE IF c.center_x THEN 2 * c.x + c.dx ELSE 2 * c.x + 2 * c.dx
Y2Lo(c) == IF c.kind = "fingerHolesAt" THEN 2 * c.y ELSE 2 * c.y - c.dy
Y2Hi(c) == IF c.kind = "fingerHolesAt" THEN 2 * c.y + 2 * c.length
           ELSE 2 * c.y + c.dy

NonNegative(c) == IF c.kind = "fingerHolesAt" THEN c.length >= 0
                  ELSE c.dx >= 0 /\ c.dy >= 0

WithinX(c, p) == 0 <= X2Lo(c) /\ X2Hi(c) <= 2 * p.w
WithinY(c, p) == 0 <= Y2Lo(c) /\ Y2Hi(c) <= 2 * p.h

====
